---------------------------- MODULE Spec2Model ----------------------------
(***************************************************************************)
(* A model of one client connection of the world server:                   *)
(* src/src/game/Server/WorldSocket.cpp (WorldSocket).                      *)
(*                                                                         *)
(* The peer writes messages to the wire, the network delivers them in      *)
(* chunks, and the reader calls ProcessIncomingData while unread bytes     *)
(* remain.  Each handler is one action; the operators below compute what   *)
(* the handler does to the connection from the state it finds.             *)
(***************************************************************************)
EXTENDS Integers, Sequences, FiniteSets, TLC

(***************************************************************************)
(* Bounds of the model.                                                    *)
(***************************************************************************)
\* messages the peer writes on one connection
MaxMsgs == 4
\* messages the peer may have written that the reader has not consumed
MaxPending == 2
\* packets the world thread sends on its own through SendPacket
MaxWorldSends == 1

(***************************************************************************)
(* Program constants.                                                      *)
(***************************************************************************)
\* sizeof(ClientPktHeader): uint16 size, uint32 cmd, packed
ClientPktHeaderSize == 6
\* the smallest declared size: the four bytes of the opcode
MinClientSize == 4
\* 0x2800, the largest buffer of the client
MaxClientSize == 10240
\* seconds below which two pings count as overspeed
PingInterval == 27
\* 0x7FFF, the largest size of the short server header
MaxShortSize == 32767

\* inbound opcodes, as the four bytes of header.cmd in memory (little endian)
\* 0x4C524F57, "WORL"
WOW_CONNECTION == <<87, 79, 82, 76>>
CMSG_AUTH_SESSION == <<73, 4, 0, 0>>
CMSG_PING == <<77, 68, 0, 0>>
CMSG_KEEP_ALIVE == <<21, 0, 0, 0>>
\* an opcode of the table that the socket does not handle itself
CMSG_PLAYER_LOGIN == <<232, 5, 0, 0>>
\* an opcode no table entry names
CMSG_UNKNOWN == <<255, 255, 0, 0>>

\* outbound opcodes (uint16)
MSG_NULL_ACTION == 0
MSG_WOW_CONNECTION == 20311
SMSG_AUTH_CHALLENGE == 17730
SMSG_AUTH_RESPONSE == 23990
SMSG_PONG == 19778

\* AccountTypes: the lowest and the highest level
SEC_PLAYER == 0
SEC_ADMINISTRATOR == 3

\* m_session(nullptr): the session that is no session
NULL == [id |-> 0, security |-> 0, latency |-> 0]
\* std::chrono::system_clock::time_point::min()
TIME_MIN == -1

(***************************************************************************)
(* Integer helpers.                                                        *)
(***************************************************************************)
U8(x) == x % 256
U16(x) == x % 65536

(***************************************************************************)
(* AuthCrypt: a keyed stream cipher over header bytes.  Unkeyed, both      *)
(* directions are the identity; keyed, byte i of the stream is combined    *)
(* with keystream byte i and the position advances.                        *)
(***************************************************************************)
KeyStream(key, pos) == U8(key + 7 * pos + 1)

CryptNew == [initialized |-> FALSE, key |-> 0, recvPos |-> 0, sendPos |-> 0]

CryptInit(crypt, K) == [crypt EXCEPT !.initialized = TRUE, !.key = K]

\* the bytes after DecryptRecv(bytes, len)
DecryptRecvBytes(crypt, bytes) ==
    IF crypt.initialized
    THEN [i \in 1..Len(bytes) |-> U8(bytes[i] + 256 - KeyStream(crypt.key, crypt.recvPos + i - 1))]
    ELSE bytes

\* the cipher after DecryptRecv(bytes, len)
DecryptRecvState(crypt, len) ==
    IF crypt.initialized THEN [crypt EXCEPT !.recvPos = @ + len] ELSE crypt

EncryptSendBytes(crypt, bytes) ==
    IF crypt.initialized
    THEN [i \in 1..Len(bytes) |-> U8(bytes[i] + KeyStream(crypt.key, crypt.sendPos + i - 1))]
    ELSE bytes

EncryptSendState(crypt, len) ==
    IF crypt.initialized THEN [crypt EXCEPT !.sendPos = @ + len] ELSE crypt

\* what the client does to a header it sends once it holds the session key
PeerEncrypt(keyed, key, pos, bytes) ==
    IF keyed
    THEN [i \in 1..Len(bytes) |-> U8(bytes[i] + KeyStream(key, pos + i - 1))]
    ELSE bytes

(***************************************************************************)
(* ServerPktHeader: the header of an outbound packet.                      *)
(***************************************************************************)
\* a variant of the length class that takes 0x7FFF for a large size
isLargePacketAtMax(size) == size >= MaxShortSize

isLargePacket(size) == size > MaxShortSize

getHeaderLength(size) == 2 + (IF isLargePacket(size) THEN 3 ELSE 2)

\* 0x80 | b, for a byte b
TopBitSet(b) == IF b >= 128 THEN b ELSE 128 + b

\* a variant of the constructor that writes the high byte of cmd first
ServerPktHeaderCmdHighFirst(size, cmd) ==
    (IF isLargePacket(size) THEN <<TopBitSet(U8(size \div 65536))>> ELSE <<>>)
    \o <<U8(size \div 256), U8(size), U8(cmd \div 256), U8(cmd)>>

ServerPktHeader(size, cmd) ==
    (IF isLargePacket(size) THEN <<TopBitSet(U8(size \div 65536))>> ELSE <<>>)
    \o <<U8(size \div 256), U8(size), U8(cmd), U8(cmd \div 256)>>

\* no ServerPktHeader constructed yet
NoPktHeader == [size |-> 0, cmd |-> 0, header |-> <<>>, length |-> 0]

(***************************************************************************)
(* ClientPktHeader: the header of an inbound message.                      *)
(***************************************************************************)
\* the bytes a client writes for (size, cmd): size big endian, cmd little endian
ClientHeaderBytes(size, cmd) ==
    <<U8(size \div 256), U8(size)>> \o cmd

\* EndianConvertReverse(header.size); EndianConvert(header.cmd)
DecodeClientHeader(bytes) ==
    [size |-> bytes[1] * 256 + bytes[2],
     cmd  |-> <<bytes[3], bytes[4], bytes[5], bytes[6]>>]

NoHeader == [size |-> 0, cmd |-> <<0, 0, 0, 0>>]


(***************************************************************************)
(* State.                                                                  *)
(***************************************************************************)
VARIABLES
    \* WorldSocket
    m_lastPingTime,
    m_overSpeedPings,
    m_useExistingHeader,
    m_existingHeader,
    m_session,
    m_seed,
    m_s,
    m_crypt,
    \* Socket: the connection, its inbound buffer and its outbound buffer
    opened,
    closed,
    readPos,
    writePos,
    reading,
    \* the packets the last operation wrote to the outbound buffer, and the
    \* number of packets written before it
    outBuffer,
    nFlushed,
    \* the peer: the messages it wrote that are not consumed yet, the cipher of
    \* its own side, and the number of messages it wrote
    wire,
    peer,
    nMsgs,
    \* number of messages the reader has consumed and dropped from the buffer
    nConsumed,
    \* the world: configuration, registered sessions, login records, and the
    \* packets queued to the session
    config,
    world,
    \* what the last call of ProcessIncomingData did
    last,
    \* number of DecryptRecv calls made on this connection
    nDecrypt,
    \* number of packets the world thread sent
    nWorldSends,
    \* the last ServerPktHeader constructed on its own: its arguments, the
    \* bytes of header[] and getHeaderLength()
    pktHeader

vars == <<m_lastPingTime, m_overSpeedPings, m_useExistingHeader, m_existingHeader,
          m_session, m_seed, m_s, m_crypt, opened, closed, readPos, writePos, reading,
          outBuffer, nFlushed, wire, peer, nMsgs, nConsumed, config, world, last,
          nDecrypt, nWorldSends, pktHeader>>

(***************************************************************************)
(* The account store and the inputs of the model.                          *)
(***************************************************************************)
\* urand()
Seeds == {17}

\* the rows of the account table: gmlevel 5 is an invalid level in the table
Accounts == {"alice", "gm"}
AccountId(name) == IF name = "alice" THEN 1 ELSE 2
AccountGmLevel(name) == IF name = "alice" THEN 0 ELSE 5
AccountKey(name) == IF name = "alice" THEN 40 ELSE 200
AccountSalt(name) == IF name = "alice" THEN 3 ELSE 4
AccountNameLen(name) == 5

\* system_clock::now(), in whole seconds
Times == {0, 26, 53}

\* CONFIG_UINT32_MAX_OVERSPEED_PINGS
OverspeedCaps == {0, 1}

\* Sha1Hash over account name, t = 0, client seed, server seed and K
Sha1Digest(name, t, clientSeed, seed, K) == <<name, t, clientSeed, seed, K>>

\* the client builds the world accepts
IsAcceptableClientBuild(build) == build = 15595

\* the fixed part of CMSG_AUTH_SESSION up to and including the add-on size
AuthFixedLen == 56
\* the two bytes of the account name length
AuthNameLenBytes == 2
\* the two uint32 of CMSG_PING
PingBodyLen == 8

NoBody ==
    [ping |-> 0, latency |-> 0, build |-> 0, account |-> "", clientSeed |-> 0,
     digest |-> <<>>, addonSize |-> 0, addonsOK |-> TRUE]

PingBody(p, l) == [NoBody EXCEPT !.ping = p, !.latency = l]

AuthBody(b, a, d, ok) ==
    [NoBody EXCEPT !.build = b, !.account = a, !.clientSeed = 7, !.digest = d,
                   !.addonSize = 3, !.addonsOK = ok]

\* a message as the peer means it: the declared size, the opcode, the bytes of
\* body it writes after the header, and the fields of that body
Msg(size, cmd, bodyLen, body) ==
    [size |-> size, cmd |-> cmd, bodyLen |-> bodyLen, body |-> body]

AuthLen(a) == AuthFixedLen + 3 + AuthNameLenBytes + AccountNameLen(a)

AuthMsgs(seed) ==
    { Msg(4 + AuthLen(a), CMSG_AUTH_SESSION, AuthLen(a),
          AuthBody(b, a, Sha1Digest(a, 0, 7, seed, IF k THEN AccountKey(a) ELSE 1), TRUE)) :
        b \in {15595, 12340}, a \in {"alice", "nobody"}, k \in BOOLEAN }
    \cup
    \* credentials in order of an account of the highest level
    { Msg(4 + AuthLen("gm"), CMSG_AUTH_SESSION, AuthLen("gm"),
          AuthBody(15595, "gm", Sha1Digest("gm", 0, 7, seed, AccountKey("gm")), TRUE)) }
    \cup
    \* credentials in order, add-on data that cannot be parsed
    { Msg(4 + AuthLen("alice"), CMSG_AUTH_SESSION, AuthLen("alice"),
          AuthBody(15595, "alice", Sha1Digest("alice", 0, 7, seed, 40), FALSE)) }
    \cup
    \* a credential message cut short
    { Msg(4 + 20, CMSG_AUTH_SESSION, 20,
          AuthBody(15595, "alice", Sha1Digest("alice", 0, 7, seed, 40), TRUE)) }

PingMsgs ==
    { Msg(4 + PingBodyLen, CMSG_PING, PingBodyLen, PingBody(5, 120)),
      Msg(4 + 4, CMSG_PING, 4, PingBody(5, 0)) }

OtherMsgs ==
    { Msg(4 + 43, WOW_CONNECTION, 43, NoBody),
      Msg(3, WOW_CONNECTION, 0, NoBody),
      Msg(MaxClientSize + 1, WOW_CONNECTION, MaxClientSize + 1 - 4, NoBody),
      Msg(4, CMSG_KEEP_ALIVE, 0, NoBody),
      Msg(4 + 2, CMSG_PLAYER_LOGIN, 2, NoBody),
      Msg(4, CMSG_UNKNOWN, 0, NoBody),
      Msg(3, CMSG_PLAYER_LOGIN, 0, NoBody),
      Msg(MaxClientSize, CMSG_PLAYER_LOGIN, MaxClientSize - 4, NoBody),
      Msg(MaxClientSize + 1, CMSG_PLAYER_LOGIN, MaxClientSize + 1 - 4, NoBody) }

\* what the account store answers during one HandleAuthSession
DbAnswers ==
    [ipLock : {"unlocked", "other"},
     banned : BOOLEAN,
     securityLimit : {SEC_PLAYER, SEC_ADMINISTRATOR}]
    \cup
    \* the account is locked to the address the peer connects from
    {[ipLock |-> "same", banned |-> FALSE, securityLimit |-> SEC_PLAYER]}

NoDb == [ipLock |-> "unlocked", banned |-> FALSE, securityLimit |-> SEC_PLAYER]

(***************************************************************************)
(* The wire: message k starts at offset WireStart(k).                      *)
(***************************************************************************)
WireStart(k) == wire[k].start
WireEnd == IF wire = <<>> THEN 0 ELSE wire[Len(wire)].start + wire[Len(wire)].wireLen

\* the message that starts at offset pos, or 0
MsgAt(pos) ==
    IF \E k \in 1..Len(wire) : WireStart(k) = pos
    THEN CHOOSE k \in 1..Len(wire) : WireStart(k) = pos
    ELSE 0

\* number of messages whose first byte the reader has passed
MsgsBefore(pos) ==
    nConsumed + Cardinality({k \in 1..Len(wire) : WireStart(k) < pos})

\* number of leading messages of w that end at or before offset pos
RECURSIVE Consumed(_, _)
Consumed(w, pos) ==
    IF w # <<>> /\ w[1].start + w[1].wireLen <= pos
    THEN 1 + Consumed(Tail(w), pos)
    ELSE 0

\* the buffer once the reader stands at offset pos: the messages it has
\* consumed are dropped and the offsets count from the first one left
Compacted(pos) ==
    LET n    == Consumed(wire, pos)
        base == IF n = 0 THEN 0 ELSE wire[n].start + wire[n].wireLen
    IN  [wire     |-> [k \in 1..(Len(wire) - n) |->
                         [wire[k + n] EXCEPT !.start = @ - base]],
         readPos  |-> pos - base,
         writePos |-> writePos - base,
         dropped  |-> n]

\* Read(&header, sizeof(ClientPktHeader)): the six bytes at the read position;
\* the bytes of a body are not interpreted by the model and read as zeros
HeaderBytesAt(pos) ==
    IF MsgAt(pos) # 0 THEN wire[MsgAt(pos)].hdr ELSE <<0, 0, 0, 0, 0, 0>>

\* InPeak(), len bytes: the body the peer wrote after the header that ends at pos
BodyAt(pos, len) ==
    LET k == MsgAt(pos - ClientPktHeaderSize)
    IN IF k # 0 /\ wire[k].bodyLen = len
       THEN [len |-> len, f |-> wire[k].body]
       ELSE [len |-> len, f |-> NoBody]

(***************************************************************************)
(* The handlers.  A handler works on a record c of the state it can touch; *)
(* c.ret is its return value and c.threw says that a ByteBufferException   *)
(* left it.                                                                *)
(***************************************************************************)
Packet(opcode, len, reason, value) ==
    [opcode |-> opcode, len |-> len, reason |-> reason, value |-> value]

\* WorldPacket packet; packet.WriteBit(false); packet.WriteBit(false);
\* the default packet, its two bits not flushed
DefaultPacket == Packet(MSG_NULL_ACTION, 0, "", 0)

\* packet.Initialize(SMSG_AUTH_RESPONSE, 2); two bits; packet << uint8(reason)
AuthResponse(reason) == Packet(SMSG_AUTH_RESPONSE, 2, reason, 0)

\* what SendPacket writes for pct: the encrypted header, then the payload
Written(crypt, pct) ==
    [hdr     |-> EncryptSendBytes(crypt, ServerPktHeader(pct.len + 2, pct.opcode)),
     hdrLen  |-> getHeaderLength(pct.len + 2),
     opcode  |-> pct.opcode,
     len     |-> pct.len,
     reason  |-> pct.reason,
     value   |-> pct.value]

\* a variant of SendPacket without the test of IsClosed
SendPacketAlways(c, pct) ==
    [c EXCEPT !.outBuffer = Append(@, Written(c.m_crypt, pct)),
              !.m_crypt = EncryptSendState(@, getHeaderLength(pct.len + 2))]

SendPacket(c, pct) ==
    IF c.closed
    THEN c
    ELSE [c EXCEPT !.outBuffer = Append(@, Written(c.m_crypt, pct)),
                   !.m_crypt = EncryptSendState(@, getHeaderLength(pct.len + 2))]

Return(c, value) == [c EXCEPT !.ret = value]
Throw(c) == [c EXCEPT !.threw = TRUE]

\* a variant of the handler that draws a new seed for the challenge
HandleWowConnectionNewSeed(c, pct, seed) ==
    Return(SendPacket(c, Packet(SMSG_AUTH_CHALLENGE, 37, "", seed + 1)), TRUE)

HandleWowConnection(c, pct, seed) ==
    Return(SendPacket(c, Packet(SMSG_AUTH_CHALLENGE, 37, "", seed)), TRUE)

\* a variant of the count that takes a ping at exactly PingInterval seconds
\* for an overspeed one
OverSpeedPingsInclusive(count, seconds) ==
    IF seconds <= PingInterval THEN count + 1 ELSE 0

\* m_overSpeedPings after a ping that is not the first
OverSpeedPings(count, seconds) ==
    IF seconds < PingInterval THEN count + 1 ELSE 0

\* a variant of the kick that fires when the count reaches the cap
OverSpeedKickAtCap(count, seconds, max_count, session) ==
    /\ seconds < PingInterval
    /\ max_count # 0 /\ count >= max_count
    /\ session # NULL /\ session.security = SEC_PLAYER

\* the overspeed kick of a ping that is not the first
OverSpeedKick(count, seconds, max_count, session) ==
    /\ seconds < PingInterval
    /\ max_count # 0 /\ count > max_count
    /\ session # NULL /\ session.security = SEC_PLAYER

\* a variant of the handler that answers a peer with no session
HandlePingWithoutSession(c, pct, now, max_count) ==
    IF pct.len < PingBodyLen
    THEN Throw(c)
    ELSE
    LET first   == c.m_lastPingTime = TIME_MIN
        seconds == now - c.m_lastPingTime
        c1 == [c EXCEPT !.m_lastPingTime = now,
                        !.m_overSpeedPings =
                            IF first THEN @ ELSE OverSpeedPings(@, seconds)]
    IN  IF ~first /\ OverSpeedKick(c1.m_overSpeedPings, seconds, max_count, c1.m_session)
        THEN Return(c1, FALSE)
        ELSE Return(SendPacket(IF c1.m_session = NULL
                               THEN c1
                               ELSE [c1 EXCEPT !.m_session.latency = pct.f.latency],
                               Packet(SMSG_PONG, 4, "", pct.f.ping)), TRUE)

\* a variant of the handler that updates the time and the count of the pings
\* before it reads the body
HandlePingCountsUnparsed(c, pct, now, max_count) ==
    LET first   == c.m_lastPingTime = TIME_MIN
        seconds == now - c.m_lastPingTime
        c1 == [c EXCEPT !.m_lastPingTime = now,
                        !.m_overSpeedPings =
                            IF first THEN @ ELSE OverSpeedPings(@, seconds)]
    IN  IF pct.len < PingBodyLen
        THEN Throw(c1)
        ELSE IF ~first /\ OverSpeedKick(c1.m_overSpeedPings, seconds, max_count, c1.m_session)
        THEN Return(c1, FALSE)
        ELSE IF c1.m_session = NULL
        THEN Return(c1, FALSE)
        ELSE Return(SendPacket([c1 EXCEPT !.m_session.latency = pct.f.latency],
                               Packet(SMSG_PONG, 4, "", pct.f.ping)), TRUE)

\* a variant of the handler that counts the first ping as an overspeed one
HandlePingCountsFirst(c, pct, now, max_count) ==
    IF pct.len < PingBodyLen
    THEN Throw(c)
    ELSE
    LET first   == c.m_lastPingTime = TIME_MIN
        seconds == IF first THEN 0 ELSE now - c.m_lastPingTime
        c1 == [c EXCEPT !.m_lastPingTime = now,
                        !.m_overSpeedPings = OverSpeedPings(@, seconds)]
    IN  IF OverSpeedKick(c1.m_overSpeedPings, seconds, max_count, c1.m_session)
        THEN Return(c1, FALSE)
        ELSE IF c1.m_session = NULL
        THEN Return(c1, FALSE)
        ELSE Return(SendPacket([c1 EXCEPT !.m_session.latency = pct.f.latency],
                               Packet(SMSG_PONG, 4, "", pct.f.ping)), TRUE)

HandlePing(c, pct, now, max_count) ==
    IF pct.len < PingBodyLen
    THEN Throw(c)
    ELSE
    LET first   == c.m_lastPingTime = TIME_MIN
        seconds == now - c.m_lastPingTime
        c1 == [c EXCEPT !.m_lastPingTime = now,
                        !.m_overSpeedPings =
                            IF first THEN @ ELSE OverSpeedPings(@, seconds)]
    IN  IF ~first /\ OverSpeedKick(c1.m_overSpeedPings, seconds, max_count, c1.m_session)
        THEN Return(c1, FALSE)
        ELSE IF c1.m_session = NULL
        THEN Return(c1, FALSE)
        ELSE Return(SendPacket([c1 EXCEPT !.m_session.latency = pct.f.latency],
                               Packet(SMSG_PONG, 4, "", pct.f.ping)), TRUE)

\* security = fields[1]; if (security > SEC_ADMINISTRATOR) security = SEC_ADMINISTRATOR
Security(name) ==
    IF AccountGmLevel(name) > SEC_ADMINISTRATOR
    THEN SEC_ADMINISTRATOR ELSE AccountGmLevel(name)

\* the bytes HandleAuthSession reads from a body with fields f
AuthNeed(f) ==
    AuthFixedLen + f.addonSize + AuthNameLenBytes + AccountNameLen(f.account)

\* a variant of the checks that compares the digest right after the IP lock,
\* before the ban and the security limit
AuthVerdictDigestFirst(f, db, seed) ==
    IF ~IsAcceptableClientBuild(f.build) THEN "version"
    ELSE IF f.account \notin Accounts THEN "unknown"
    ELSE IF db.ipLock = "other" THEN "iplock"
    ELSE IF Sha1Digest(f.account, 0, f.clientSeed, seed, AccountKey(f.account)) # f.digest
         THEN "digest"
    ELSE IF db.banned THEN "banned"
    ELSE IF db.securityLimit > SEC_PLAYER /\ Security(f.account) < db.securityLimit
         THEN "unavailable"
    ELSE "ok"

\* the checks of HandleAuthSession in the order the code makes them: the name
\* of the first rejection taken, or "ok"
AuthVerdict(f, db, seed) ==
    IF ~IsAcceptableClientBuild(f.build) THEN "version"
    ELSE IF f.account \notin Accounts THEN "unknown"
    ELSE IF db.ipLock = "other" THEN "iplock"
    ELSE IF db.banned THEN "banned"
    ELSE IF db.securityLimit > SEC_PLAYER /\ Security(f.account) < db.securityLimit
         THEN "unavailable"
    ELSE IF Sha1Digest(f.account, 0, f.clientSeed, seed, AccountKey(f.account)) # f.digest
         THEN "digest"
    ELSE "ok"

\* the packet handed to SendPacket on each rejection
RejectPacket(path) ==
    CASE path = "version"     -> AuthResponse("AUTH_VERSION_MISMATCH")
      [] path = "unknown"     -> AuthResponse("AUTH_UNKNOWN_ACCOUNT")
      [] path = "iplock"      -> AuthResponse("AUTH_FAILED")
      [] path = "banned"      -> AuthResponse("AUTH_BANNED")
      [] path = "unavailable" -> DefaultPacket
      [] path = "digest"      -> AuthResponse("AUTH_FAILED")

\* a variant of the salt assignment that also writes the login record as
\* soon as the account row is fetched
SaltAndLogonAfter(c, f, path) ==
    IF path \in {"version", "unknown"}
    THEN c
    ELSE [c EXCEPT !.m_s = AccountSalt(f.account),
                   !.world.logons = Append(@, AccountId(f.account))]

\* m_s = s, set once the account row is fetched
SaltAfter(c, f, path) ==
    IF path \in {"version", "unknown"} THEN c ELSE [c EXCEPT !.m_s = AccountSalt(f.account)]

\* a variant of the success path that keys the cipher after the add-on data
\* is read
AuthAcceptKeyLast(c, f) ==
    LET c1 == [c EXCEPT !.world.logons = Append(@, AccountId(f.account)),
                        !.m_session = [id |-> AccountId(f.account),
                                       security |-> Security(f.account),
                                       latency |-> 0]]
    IN  IF ~f.addonsOK
        THEN Throw(c1)
        ELSE Return([c1 EXCEPT !.m_crypt = CryptInit(@, AccountKey(f.account)),
                               !.world.sessions = @ \cup {AccountId(f.account)}], TRUE)

\* the success path: the login record, the session, the key, the add-on data,
\* and the registration with the world
AuthAccept(c, f) ==
    LET c1 == [c EXCEPT !.world.logons = Append(@, AccountId(f.account)),
                        !.m_session = [id |-> AccountId(f.account),
                                       security |-> Security(f.account),
                                       latency |-> 0],
                        !.m_crypt = CryptInit(@, AccountKey(f.account))]
    IN  IF ~f.addonsOK
        THEN Throw(c1)
        ELSE Return([c1 EXCEPT !.world.sessions = @ \cup {AccountId(f.account)}], TRUE)

HandleAuthSession(c, pct, db, seed) ==
    IF pct.len < AuthFixedLen \/ pct.len < AuthNeed(pct.f)
    THEN Throw(c)
    ELSE
    LET path == AuthVerdict(pct.f, db, seed)
        c1   == [SaltAfter(c, pct.f, path) EXCEPT !.authPath = path]
    IN  IF path # "ok"
        THEN Return(SendPacket(c1, RejectPacket(path)), FALSE)
        ELSE AuthAccept(c1, pct.f)

(***************************************************************************)
(* ProcessIncomingData.                                                    *)
(***************************************************************************)
\* a variant of the size check that rejects the largest buffer of the client
SizeRejectedAtMax(header) ==
    \/ header.size < MinClientSize
    \/ (header.size >= MaxClientSize /\ header.cmd # WOW_CONNECTION)

\* a variant of the size check that exempts the legacy opcode from both bounds
SizeRejectedLegacyExempt(header) ==
    /\ header.size < MinClientSize \/ header.size > MaxClientSize
    /\ header.cmd # WOW_CONNECTION

\* the size check on a decoded header
SizeRejected(header) ==
    \/ header.size < MinClientSize
    \/ (header.size > MaxClientSize /\ header.cmd # WOW_CONNECTION)

\* a variant of the length that is kept in one byte
ValidBytesRemainingInByte(header) == U8(header.size + 256 - 4)

\* const uint16 validBytesRemaining = header.size - 4
ValidBytesRemaining(header) == U16(header.size + 65536 - 4)

\* a variant of the default case that queues without a session
QueueAlways(c, pct) ==
    [Return([c EXCEPT !.world.queue = Append(@, [opcode |-> pct.opcode, len |-> pct.len])],
            TRUE) EXCEPT !.path = "queued"]

\* a variant of the default case that queues in front
QueueInFront(c, pct) ==
    IF c.m_session = NULL
    THEN [Return(c, FALSE) EXCEPT !.path = "noauth"]
    ELSE [Return([c EXCEPT !.world.queue = <<[opcode |-> pct.opcode, len |-> pct.len]>> \o @],
                 TRUE) EXCEPT !.path = "queued"]

\* the default case of the switch
QueueOrReject(c, pct) ==
    IF c.m_session = NULL
    THEN [Return(c, FALSE) EXCEPT !.path = "noauth"]
    ELSE [Return([c EXCEPT !.world.queue = Append(@, [opcode |-> pct.opcode, len |-> pct.len])],
                 TRUE) EXCEPT !.path = "queued"]

\* a variant of the switch without the case of CMSG_KEEP_ALIVE
DispatchNoKeepAlive(c, pct, db, now, eluna) ==
    CASE pct.opcode = WOW_CONNECTION ->
            HandleWowConnection([c EXCEPT !.path = "wow"], pct, m_seed)
      [] pct.opcode = CMSG_AUTH_SESSION ->
            IF c.m_session # NULL
            THEN [Return(c, FALSE) EXCEPT !.path = "authAgain"]
            ELSE IF ~eluna
            THEN [Return(c, FALSE) EXCEPT !.path = "eluna"]
            ELSE HandleAuthSession([c EXCEPT !.path = "auth"], pct, db, m_seed)
      [] pct.opcode = CMSG_PING ->
            HandlePing([c EXCEPT !.path = "ping"], pct, now, config.maxOverspeedPings)
      [] OTHER -> QueueOrReject(c, pct)

\* a variant of the switch that runs HandleAuthSession whether or not a
\* session is bound
DispatchAuthAgain(c, pct, db, now, eluna) ==
    CASE pct.opcode = WOW_CONNECTION ->
            HandleWowConnection([c EXCEPT !.path = "wow"], pct, m_seed)
      [] pct.opcode = CMSG_AUTH_SESSION ->
            IF ~eluna
            THEN [Return(c, FALSE) EXCEPT !.path = "eluna"]
            ELSE HandleAuthSession([c EXCEPT !.path = "auth"], pct, db, m_seed)
      [] pct.opcode = CMSG_PING ->
            HandlePing([c EXCEPT !.path = "ping"], pct, now, config.maxOverspeedPings)
      [] pct.opcode = CMSG_KEEP_ALIVE ->
            [Return(c, TRUE) EXCEPT !.path = "keepalive"]
      [] OTHER -> QueueOrReject(c, pct)

\* the switch on the opcode
Dispatch(c, pct, db, now, eluna) ==
    CASE pct.opcode = WOW_CONNECTION ->
            HandleWowConnection([c EXCEPT !.path = "wow"], pct, m_seed)
      [] pct.opcode = CMSG_AUTH_SESSION ->
            IF c.m_session # NULL
            THEN [Return(c, FALSE) EXCEPT !.path = "authAgain"]
            ELSE IF ~eluna
            THEN [Return(c, FALSE) EXCEPT !.path = "eluna"]
            ELSE HandleAuthSession([c EXCEPT !.path = "auth"], pct, db, m_seed)
      [] pct.opcode = CMSG_PING ->
            HandlePing([c EXCEPT !.path = "ping"], pct, now, config.maxOverspeedPings)
      [] pct.opcode = CMSG_KEEP_ALIVE ->
            [Return(c, TRUE) EXCEPT !.path = "keepalive"]
      [] OTHER -> QueueOrReject(c, pct)

\* the try block and its catch
TryDispatch(c, pct, db, now, eluna) ==
    LET r == Dispatch(c, pct, db, now, eluna)
    IN  IF r.threw
        THEN Return(r, ~config.kickOnBadPacket)
        ELSE r

\* the state the handlers work on
Conn ==
    [m_session |-> m_session, m_crypt |-> m_crypt, m_s |-> m_s,
     m_lastPingTime |-> m_lastPingTime, m_overSpeedPings |-> m_overSpeedPings,
     closed |-> closed, outBuffer |-> <<>>, world |-> world,
     ret |-> TRUE, threw |-> FALSE, path |-> "none", authPath |-> "none"]

\* a variant of the header of the call that decrypts the bytes at the read
\* position again on a retry
HeaderReadAgain ==
    DecodeClientHeader(DecryptRecvBytes(m_crypt, HeaderBytesAt(readPos)))

\* a variant of the cipher of the call that advances on a retry too
CryptAdvancedAgain ==
    DecryptRecvState(m_crypt, ClientPktHeaderSize)

\* the header this call works on: the cached one, or the one read and decrypted
HeaderOfCall ==
    IF m_useExistingHeader
    THEN m_existingHeader
    ELSE DecodeClientHeader(DecryptRecvBytes(m_crypt, HeaderBytesAt(readPos)))

\* the cipher after the header of this call was obtained
CryptOfCall ==
    IF m_useExistingHeader
    THEN m_crypt
    ELSE DecryptRecvState(m_crypt, ClientPktHeaderSize)

\* number of DecryptRecv calls after the header of this call was obtained
DecryptsOfCall ==
    IF m_useExistingHeader THEN nDecrypt ELSE nDecrypt + 1

\* the read position when a body is found incomplete
RewindPos(pos) == pos - ClientPktHeaderSize

\* what the last call did.  usedExisting: it found a cached header; msg: the
\* number, in the order of the stream, of the message at its read position;
\* db, f: the answers of the account store and the fields of the body that
\* HandleAuthSession decided on; now: the clock HandlePing read
NoLast ==
    [ret |-> "none", errno |-> "none", path |-> "none", authPath |-> "none",
     threw |-> FALSE, header |-> NoHeader, bodyLen |-> 0, msg |-> 0,
     usedExisting |-> FALSE, db |-> NoDb, now |-> 0, f |-> NoBody]

Outcome(ret, errno, path, header) ==
    [NoLast EXCEPT !.ret = ret, !.errno = errno, !.path = path, !.header = header,
                   !.msg = MsgsBefore(readPos) + 1,
                   !.usedExisting = m_useExistingHeader]

\* the reader stands at offset pos when the call returns
ReadTo(pos) ==
    \E b \in {Compacted(pos)} :
        /\ wire' = b.wire
        /\ readPos' = b.readPos
        /\ writePos' = b.writePos
        /\ nConsumed' = nConsumed + b.dropped

Flushed == nFlushed' = nFlushed + Len(outBuffer)

\* Read fails: fewer than six bytes are buffered
NeedHeader ==
    /\ ~m_useExistingHeader
    /\ writePos - readPos < ClientPktHeaderSize
    /\ last' = Outcome("needmore", "EBADMSG", "needHeader", NoHeader)
    /\ reading' = FALSE
    /\ outBuffer' = <<>> /\ Flushed
    /\ UNCHANGED <<m_lastPingTime, m_overSpeedPings, m_useExistingHeader,
                   m_existingHeader, m_session, m_s, m_crypt, closed, readPos,
                   writePos, wire, nConsumed, world, nDecrypt>>

\* what the handlers are given from outside: the answers of the account
\* store, the clock, and the verdict of the script hook on CMSG_AUTH_SESSION
Inputs(cmd) ==
    IF cmd = CMSG_AUTH_SESSION
    THEN [db : DbAnswers, now : {0}, eluna : {TRUE}]
         \cup [db : {NoDb}, now : {0}, eluna : {FALSE}]
    ELSE IF cmd = CMSG_PING
    THEN [db : {NoDb}, now : Times, eluna : {TRUE}]
    ELSE [db : {NoDb}, now : {0}, eluna : {TRUE}]

\* the call ends before the dispatch
EndEarly(ret, errno, path, header, useExisting, pos) ==
    /\ last' = Outcome(ret, errno, path, header)
    /\ m_useExistingHeader' = useExisting
    /\ m_existingHeader' = IF useExisting THEN header ELSE m_existingHeader
    /\ m_crypt' = CryptOfCall
    /\ ReadTo(pos)
    /\ nDecrypt' = DecryptsOfCall
    /\ reading' = FALSE
    /\ outBuffer' = <<>> /\ Flushed
    /\ UNCHANGED <<m_lastPingTime, m_overSpeedPings, m_session, m_s, closed, world>>

\* the message is complete: it is built, its bytes are consumed, and the
\* switch handles it
Complete(header, remain, pos1) ==
    \E in \in Inputs(header.cmd) :
    \E pct \in {[opcode |-> header.cmd, len |-> remain, f |-> BodyAt(pos1, remain).f]} :
    \E r \in {TryDispatch([Conn EXCEPT !.m_crypt = CryptOfCall], pct, in.db, in.now, in.eluna)} :
        /\ last' = [Outcome(IF r.ret THEN "ok" ELSE "fail", "none", r.path, header)
                      EXCEPT !.authPath = r.authPath,
                             !.threw = r.threw,
                             !.bodyLen = remain,
                             !.db = IF r.authPath # "none" THEN in.db ELSE NoDb,
                             !.f = IF r.authPath # "none" THEN pct.f ELSE NoBody,
                             !.now = IF r.path = "ping" /\ ~r.threw THEN in.now ELSE 0]
        /\ m_useExistingHeader' = FALSE
        /\ ReadTo(pos1 + remain)
        /\ nDecrypt' = DecryptsOfCall
        /\ m_session' = r.m_session
        /\ m_crypt' = r.m_crypt
        /\ m_s' = r.m_s
        /\ m_lastPingTime' = r.m_lastPingTime
        /\ m_overSpeedPings' = r.m_overSpeedPings
        /\ outBuffer' = r.outBuffer /\ Flushed
        /\ world' = r.world
        /\ reading' = (r.ret /\ pos1 + remain < writePos)
        /\ UNCHANGED <<m_existingHeader, closed>>

\* a header is there: the six bytes are consumed (read or skipped)
HaveHeader ==
    /\ m_useExistingHeader \/ writePos - readPos >= ClientPktHeaderSize
    /\ \E header \in {HeaderOfCall} :
       \E pos1 \in {readPos + ClientPktHeaderSize} :
       \E remain \in {ValidBytesRemaining(header)} :
           IF SizeRejected(header)
           THEN EndEarly("fail", "EINVAL", "framing", header, FALSE, pos1)
           ELSE IF remain > writePos - pos1
           THEN EndEarly("needmore", "EBADMSG", "needBody", header, TRUE, RewindPos(pos1))
           ELSE IF closed
           THEN EndEarly("fail", "none", "closed", header, FALSE, pos1)
           ELSE Complete(header, remain, pos1)

\* the reader calls ProcessIncomingData while unread bytes remain
ProcessIncomingData ==
    /\ reading
    /\ readPos < writePos
    /\ NeedHeader \/ HaveHeader
    /\ UNCHANGED <<m_seed, opened, peer, nMsgs, config, nWorldSends, pktHeader>>

(***************************************************************************)
(* The other operations of the connection, and its environment.            *)
(***************************************************************************)
\* WorldSocket::Open: the greeting "RLD OF WARCRAFT CONNECTION - SERVER TO CLIENT"
Open ==
    /\ ~opened /\ ~closed
    /\ opened' = TRUE
    /\ \E r \in {SendPacket(Conn, Packet(MSG_WOW_CONNECTION, 46, "", 0))} :
           /\ outBuffer' = r.outBuffer /\ Flushed
           /\ m_crypt' = r.m_crypt
    /\ UNCHANGED <<m_lastPingTime, m_overSpeedPings, m_useExistingHeader,
                   m_existingHeader, m_session, m_seed, m_s, closed, readPos,
                   writePos, reading, wire, peer, nMsgs, nConsumed, config, world,
                   last, nDecrypt, nWorldSends, pktHeader>>

\* the packets the world thread sends through the session
WorldPackets ==
    { Packet(SMSG_AUTH_RESPONSE, MaxShortSize - 2, "AUTH_OK", 0),
      Packet(SMSG_AUTH_RESPONSE, MaxShortSize - 1, "AUTH_OK", 0) }

\* SendPacket called by the world thread
WorldSend ==
    /\ opened /\ m_session # NULL
    /\ nWorldSends < MaxWorldSends
    /\ \E pct \in WorldPackets :
       \E r \in {SendPacket(Conn, pct)} :
           /\ outBuffer' = r.outBuffer /\ Flushed
           /\ m_crypt' = r.m_crypt
    /\ nWorldSends' = nWorldSends + 1
    /\ UNCHANGED <<m_lastPingTime, m_overSpeedPings, m_useExistingHeader,
                   m_existingHeader, m_session, m_seed, m_s, opened, closed,
                   readPos, writePos, reading, wire, peer, nMsgs, nConsumed,
                   config, world, last, nDecrypt, pktHeader>>

\* the messages the peer writes before it has sent credentials
PeerMsgs == AuthMsgs(m_seed) \cup PingMsgs \cup OtherMsgs

\* the messages the peer writes once it has sent credentials: a second
\* credential message is always the same one
KeyedPeerMsgs ==
    { Msg(4 + AuthLen("alice"), CMSG_AUTH_SESSION, AuthLen("alice"),
          AuthBody(15595, "alice", Sha1Digest("alice", 0, 7, m_seed, 40), TRUE)) }
    \cup PingMsgs \cup OtherMsgs

\* the messages the peer writes behind one the reader has not consumed yet
PipelinedMsgs ==
    { Msg(4 + 2, CMSG_PLAYER_LOGIN, 2, NoBody),
      Msg(4 + PingBodyLen, CMSG_PING, PingBodyLen, PingBody(5, 120)) }

\* the peer writes message m, its header encrypted once it sent its credentials
PeerWrites(m) ==
    /\ wire' = Append(wire,
           [start |-> WireEnd,
            hdr |-> PeerEncrypt(peer.keyed, peer.key, peer.pos,
                                ClientHeaderBytes(m.size, m.cmd)),
            size |-> m.size, cmd |-> m.cmd,
            bodyLen |-> m.bodyLen, body |-> m.body,
            wireLen |-> ClientPktHeaderSize + m.bodyLen])
    /\ peer' = IF peer.keyed
               THEN [peer EXCEPT !.pos = @ + ClientPktHeaderSize]
               ELSE IF m.cmd = CMSG_AUTH_SESSION
               THEN [keyed |-> TRUE, key |-> AccountKey(m.body.account), pos |-> 0]
               ELSE peer

\* the peer writes one more message
PeerSend ==
    /\ opened /\ ~closed
    /\ last.ret # "fail"
    /\ nMsgs < MaxMsgs
    /\ Len(wire) < MaxPending
    /\ writePos = WireEnd
    /\ last' = NoLast
    /\ \E m \in IF wire # <<>> THEN PipelinedMsgs
                ELSE IF peer.keyed THEN KeyedPeerMsgs ELSE PeerMsgs :
         PeerWrites(m)
    /\ nMsgs' = nMsgs + 1
    /\ UNCHANGED <<m_lastPingTime, m_overSpeedPings, m_useExistingHeader,
                   m_existingHeader, m_session, m_seed, m_s, m_crypt, opened,
                   closed, readPos, writePos, reading, outBuffer, nFlushed,
                   nConsumed, config, world, nDecrypt, nWorldSends, pktHeader>>

\* the offsets at which the network may cut the message being delivered: in
\* the header when the message has no body, in the body when it has one
CutPoints ==
    LET k == Len(wire)
        s == WireStart(k)
    IN  { IF wire[k].bodyLen = 0
          THEN s + 3
          ELSE s + ClientPktHeaderSize + wire[k].bodyLen \div 2,
          s + wire[k].wireLen }

\* Socket::OnRead: more bytes of the last message arrive
Deliver ==
    /\ opened /\ ~closed
    /\ last.ret # "fail"
    /\ writePos < WireEnd
    /\ \E p \in CutPoints :
         /\ p > writePos
         /\ writePos' = p
    /\ reading' = TRUE
    /\ UNCHANGED <<m_lastPingTime, m_overSpeedPings, m_useExistingHeader,
                   m_existingHeader, m_session, m_seed, m_s, m_crypt, opened,
                   closed, readPos, outBuffer, nFlushed, wire, peer, nMsgs,
                   nConsumed, config, world, last, nDecrypt, nWorldSends, pktHeader>>

\* the reader closes the socket when ProcessIncomingData failed for another
\* reason than missing data
CallerClose ==
    /\ last.ret = "fail" /\ ~closed
    /\ closed' = TRUE
    /\ UNCHANGED <<m_lastPingTime, m_overSpeedPings, m_useExistingHeader,
                   m_existingHeader, m_session, m_seed, m_s, m_crypt, opened,
                   readPos, writePos, reading, outBuffer, nFlushed, wire, peer,
                   nMsgs, nConsumed, config, world, last, nDecrypt, nWorldSends, pktHeader>>

\* the socket is closed from outside the reader (the world kicks the session,
\* the peer hangs up) while the reader still has bytes to process and the
\* peer has more to write
ExternalClose ==
    /\ opened /\ ~closed
    /\ reading
    /\ nMsgs < MaxMsgs
    /\ closed' = TRUE
    /\ UNCHANGED <<m_lastPingTime, m_overSpeedPings, m_useExistingHeader,
                   m_existingHeader, m_session, m_seed, m_s, m_crypt, opened,
                   readPos, writePos, reading, outBuffer, nFlushed, wire, peer,
                   nMsgs, nConsumed, config, world, last, nDecrypt, nWorldSends, pktHeader>>

\* the connection after construction, its seed drawn from seeds and the
\* configuration from kicks (CONFIG_BOOL_KICK_PLAYER_ON_BAD_PACKET) and caps
\* (CONFIG_UINT32_MAX_OVERSPEED_PINGS)
InitOf(seeds, kicks, caps) ==
    /\ m_lastPingTime = TIME_MIN
    /\ m_overSpeedPings = 0
    /\ m_useExistingHeader = FALSE
    /\ m_existingHeader = NoHeader
    /\ m_session = NULL
    /\ m_seed \in seeds
    /\ m_s = 0
    /\ m_crypt = CryptNew
    /\ opened = FALSE
    /\ closed = FALSE
    /\ readPos = 0
    /\ writePos = 0
    /\ reading = FALSE
    /\ outBuffer = <<>>
    /\ nFlushed = 0
    /\ wire = <<>>
    /\ peer = [keyed |-> FALSE, key |-> 0, pos |-> 0]
    /\ nMsgs = 0
    /\ nConsumed = 0
    /\ config \in [kickOnBadPacket : kicks, maxOverspeedPings : caps]
    /\ world = [sessions |-> {}, logons |-> <<>>, queue |-> <<>>]
    /\ last = NoLast
    /\ nDecrypt = 0
    /\ nWorldSends = 0
    /\ pktHeader = NoPktHeader

Init == InitOf(Seeds, BOOLEAN, OverspeedCaps)

Next ==
    \/ Open
    \/ PeerSend
    \/ Deliver
    \/ ProcessIncomingData
    \/ CallerClose
    \/ ExternalClose

Spec == Init /\ [][Next]_vars

\* the connection with the world thread sending on it
NextWorld == Next \/ WorldSend

SpecWorld == Init /\ [][NextWorld]_vars

(***************************************************************************)
(* The connection of a client that shakes hands, sends credentials and     *)
(* then pings: the environment in which long runs of pings and the seed    *)
(* of the connection are examined.                                         *)
(***************************************************************************)
\* messages the peer writes on such a connection
MaxSessionMsgs == 6

\* urand(), two values
SessionSeeds == {17, 23}

\* CONFIG_UINT32_MAX_OVERSPEED_PINGS
SessionCaps == {0, 1, 2}

\* the credentials of account a in order, the digest made with seed
Credentials(a, seed) ==
    Msg(4 + AuthLen(a), CMSG_AUTH_SESSION, AuthLen(a),
        AuthBody(15595, a, Sha1Digest(a, 0, 7, seed, AccountKey(a)), TRUE))

\* what such a client writes: the opener at any time, credentials made with a
\* seed that is or is not the one of the connection, and well-formed pings
\* once the credentials are sent
SessionMsgs ==
    { Msg(4 + 43, WOW_CONNECTION, 43, NoBody) }
    \cup (IF peer.keyed
          THEN { Msg(4 + PingBodyLen, CMSG_PING, PingBodyLen, PingBody(5, 120)),
                 Credentials("alice", m_seed) }
          ELSE { Credentials(a, seed) : a \in Accounts, seed \in SessionSeeds })

SessionPeerSend ==
    /\ opened /\ ~closed
    /\ last.ret # "fail"
    /\ nMsgs < MaxSessionMsgs
    /\ wire = <<>>
    /\ last' = NoLast
    /\ \E m \in SessionMsgs : PeerWrites(m)
    /\ nMsgs' = nMsgs + 1
    /\ UNCHANGED <<m_lastPingTime, m_overSpeedPings, m_useExistingHeader,
                   m_existingHeader, m_session, m_seed, m_s, m_crypt, opened,
                   closed, readPos, writePos, reading, outBuffer, nFlushed,
                   nConsumed, config, world, nDecrypt, nWorldSends, pktHeader>>

\* such a client writes no malformed message: the configuration for those is fixed
InitSession == InitOf(SessionSeeds, {TRUE}, SessionCaps)

NextSession ==
    \/ Open
    \/ SessionPeerSend
    \/ Deliver
    \/ ProcessIncomingData
    \/ CallerClose

SpecSession == InitSession /\ [][NextSession]_vars

(***************************************************************************)
(* ServerPktHeader on its own: the constructor applied to sizes and        *)
(* opcodes around the limits of its fields.                                *)
(***************************************************************************)
\* uint32 size: around one byte, 0x7FFF, two bytes and 0x7FFFFF
HeaderSizes ==
    {0, 1, 2, 255, 256, 32766, 32767, 32768, 32769, 65535, 65536, 65537,
     8388606, 8388607}

\* uint16 cmd
HeaderOpcodes == {0, 1, 255, 256, 257, 23990, 32768, 65535}

NewServerPktHeader ==
    /\ \E size \in HeaderSizes, cmd \in HeaderOpcodes :
           pktHeader' = [size   |-> size,
                         cmd    |-> cmd,
                         header |-> ServerPktHeader(size, cmd),
                         length |-> getHeaderLength(size)]
    /\ UNCHANGED <<m_lastPingTime, m_overSpeedPings, m_useExistingHeader,
                   m_existingHeader, m_session, m_seed, m_s, m_crypt, opened,
                   closed, readPos, writePos, reading, outBuffer, nFlushed, wire,
                   peer, nMsgs, nConsumed, config, world, last, nDecrypt,
                   nWorldSends>>

SpecHeader == Init /\ [][NewServerPktHeader]_vars

(***************************************************************************)
(* Properties.                                                             *)
(***************************************************************************)
\* the opcodes the switch of ProcessIncomingData handles itself
ReservedOpcodes == {WOW_CONNECTION, CMSG_AUTH_SESSION, CMSG_PING, CMSG_KEEP_ALIVE}

\* a step of ProcessIncomingData, told from the steps of the other actions by
\* what it leaves alone: it runs while the reader is reading, neither closes
\* the socket nor writes to the wire, and moves the end of the buffer only by
\* dropping the messages it consumed
CallStep ==
    /\ reading /\ readPos < writePos
    /\ closed' = closed /\ nMsgs' = nMsgs
    /\ nConsumed' # nConsumed \/ writePos' = writePos

\* the steps told so are the steps of ProcessIncomingData
CallStepIsProcessIncomingData ==
    [][CallStep <=> ProcessIncomingData]_vars

\* the call went as far as the switch
Dispatched(l) == l.path \notin {"none", "needHeader", "needBody", "framing", "closed"}

\* C1: a message is put on the session queue only by a call of
\* ProcessIncomingData that finds a session bound; a call that dispatches an
\* opcode the switch does not handle itself queues nothing and returns failure
\* when no session is bound, and queues exactly that message and returns
\* success when one is.
C1_EnqueueOnlyWithSession ==
    [][ /\ world'.queue # world.queue => m_session # NULL /\ CallStep
        /\ (CallStep /\ Dispatched(last')
              /\ last'.header.cmd \notin ReservedOpcodes)
           => IF m_session = NULL
              THEN world'.queue = world.queue /\ last'.ret = "fail"
              ELSE /\ world'.queue = Append(world.queue,
                          [opcode |-> last'.header.cmd, len |-> last'.bodyLen])
                   /\ last'.ret = "ok" ]_vars

\* a message was queued to the session a successful HandleAuthSession bound
C1_Witness ==
    /\ last.path = "queued" /\ last.ret = "ok"
    /\ world.queue # <<>>
    /\ world.sessions # {}

\* C2, as the specification states it: a call that dispatches, with no session
\* bound, an opcode other than the handshake opener, CMSG_AUTH_SESSION and
\* CMSG_PING returns failure.
C2_ThreeReserved ==
    [][ (CallStep /\ Dispatched(last') /\ m_session = NULL
           /\ last'.header.cmd \notin {WOW_CONNECTION, CMSG_AUTH_SESSION, CMSG_PING})
        => last'.ret = "fail" ]_vars

\* C2, amended: a call that dispatches, with no session bound, an opcode other
\* than the handshake opener, CMSG_AUTH_SESSION, CMSG_PING and CMSG_KEEP_ALIVE
\* returns failure and queues nothing; CMSG_KEEP_ALIVE with no session bound
\* returns success.
C2_FourReserved ==
    [][ (CallStep /\ Dispatched(last') /\ m_session = NULL)
        => /\ last'.header.cmd \notin ReservedOpcodes
                => last'.ret = "fail" /\ world' = world
           /\ last'.header.cmd = CMSG_KEEP_ALIVE
                => last'.ret = "ok" /\ world' = world /\ m_session' = NULL ]_vars

\* CMSG_KEEP_ALIVE was accepted on a connection with no session
C2_Witness ==
    /\ last.header.cmd = CMSG_KEEP_ALIVE /\ Dispatched(last)
    /\ last.ret = "ok"
    /\ m_session = NULL

\* the conditions on which HandleAuthSession rejects, on the fields f of the
\* message and the answers db of the account store
Rejects(cond, f, db, seed) ==
    CASE cond = "version"     -> ~IsAcceptableClientBuild(f.build)
      [] cond = "unknown"     -> f.account \notin Accounts
      [] cond = "iplock"      -> f.account \in Accounts /\ db.ipLock = "other"
      [] cond = "digest"      -> /\ f.account \in Accounts
                                 /\ f.digest # Sha1Digest(f.account, 0, f.clientSeed, seed,
                                                          AccountKey(f.account))
      [] cond = "banned"      -> f.account \in Accounts /\ db.banned
      [] cond = "unavailable" -> /\ f.account \in Accounts
                                 /\ db.securityLimit > SEC_PLAYER
                                 /\ Security(f.account) < db.securityLimit

\* the first condition of the sequence order that rejects, or "ok"
FirstOf(order, f, db, seed) ==
    IF \E i \in 1..Len(order) : Rejects(order[i], f, db, seed)
    THEN order[CHOOSE i \in 1..Len(order) :
                 /\ Rejects(order[i], f, db, seed)
                 /\ \A j \in 1..(i - 1) : ~Rejects(order[j], f, db, seed)]
    ELSE "ok"

\* the order of the specification and the order of the code
StatedOrder == <<"version", "unknown", "iplock", "digest", "banned", "unavailable">>
CodeOrder == <<"version", "unknown", "iplock", "banned", "unavailable", "digest">>

\* the reason code of each rejection
ReasonOf(cond) ==
    CASE cond = "version"     -> "AUTH_VERSION_MISMATCH"
      [] cond = "unknown"     -> "AUTH_UNKNOWN_ACCOUNT"
      [] cond = "iplock"      -> "AUTH_FAILED"
      [] cond = "digest"      -> "AUTH_FAILED"
      [] cond = "banned"      -> "AUTH_BANNED"
      [] cond = "unavailable" -> "AUTH_UNAVAILABLE"

C4_OneAuthResponse ==
    last.authPath \notin {"none", "ok"}
    => /\ last.ret = "fail"
       /\ Len(outBuffer) = 1
       /\ outBuffer[1].opcode = SMSG_AUTH_RESPONSE
       /\ outBuffer[1].reason = ReasonOf(last.authPath)

\* C5: a call in which HandleAuthSession rejects returns failure and leaves
\* the connection with no session, the cipher unkeyed and as it was, and the
\* world with no session registered and no login record written.
C5_RejectionLeavesState ==
    [][ (CallStep /\ last'.authPath \notin {"none", "ok"})
        => /\ last'.ret = "fail"
           /\ m_session = NULL /\ m_session' = NULL
           /\ ~m_crypt.initialized /\ m_crypt' = m_crypt
           /\ world'.sessions = world.sessions
           /\ world'.logons = world.logons
           /\ world'.queue = world.queue ]_vars

\* a rejection on the last check of the handler, the digest
C5_Witness ==
    /\ last.authPath = "digest" /\ last.ret = "fail"
    /\ m_session = NULL /\ ~m_crypt.initialized
    /\ world.logons = <<>> /\ world.sessions = {}

\* the read position of the stream after a step, counted in the offsets before it
ReadPosAfter ==
    LET n == nConsumed' - nConsumed
    IN  readPos' + (IF n = 0 THEN 0 ELSE wire[n].start + wire[n].wireLen)

\* the reader stands at the first byte of a message or at the end of the stream
Aligned == MsgAt(readPos) # 0 \/ readPos = WireEnd

\* C6: DecryptRecv runs exactly once on the header of each message.  A call
\* that finds a cached header leaves the cipher alone and works on the cached
\* header; a call that reads six bytes decrypts once; a call that finds the
\* body incomplete caches the decoded header and leaves the read position
\* where it was; and the number of decryptions equals the number of messages
\* whose header was read.
C6_DecryptOnce ==
    /\ [](Aligned => nDecrypt = MsgsBefore(readPos) + (IF m_useExistingHeader THEN 1 ELSE 0))
    /\ [][ CallStep
           => /\ m_useExistingHeader
                   => /\ nDecrypt' = nDecrypt
                      /\ m_crypt'.recvPos = m_crypt.recvPos
                      /\ last'.header = m_existingHeader
              /\ (~m_useExistingHeader /\ last'.path # "needHeader")
                   => /\ nDecrypt' = nDecrypt + 1
                      /\ m_crypt'.recvPos = m_crypt.recvPos
                            + (IF m_crypt.initialized THEN ClientPktHeaderSize ELSE 0)
                      /\ last'.header =
                            DecodeClientHeader(DecryptRecvBytes(m_crypt, HeaderBytesAt(readPos)))
              /\ last'.path = "needBody"
                   => /\ m_useExistingHeader'
                      /\ m_existingHeader' = last'.header
                      /\ ReadPosAfter = readPos
              /\ last'.path = "needHeader"
                   => /\ nDecrypt' = nDecrypt /\ m_crypt' = m_crypt
                      /\ ~m_useExistingHeader'
                      /\ ReadPosAfter = readPos ]_vars

\* a ping whose header came encrypted was handled on a retry, from the cache
C6_Witness ==
    /\ last.usedExisting /\ last.path = "ping" /\ last.ret = "ok"
    /\ m_crypt.initialized /\ m_crypt.recvPos > 0

\* C7: a call that finds a cached header ends where a call on the whole
\* message would.  It works on the header a fresh read would have decoded
\* before the first attempt and the cipher stands one header past that
\* attempt; once the body is there it dispatches that message, the read
\* position stands behind the body and no header is cached; while the body is
\* short it waits where it was; and the attempts that wait change nothing else.
C7_ChunkedAsWhole ==
    [][ CallStep
        => /\ m_useExistingHeader
                => LET first == IF m_crypt.initialized
                                THEN [m_crypt EXCEPT !.recvPos = @ - ClientPktHeaderSize]
                                ELSE m_crypt
                       whole == DecodeClientHeader(
                                    DecryptRecvBytes(first, HeaderBytesAt(readPos)))
                   IN  /\ last'.header = whole
                       /\ m_crypt'.recvPos = DecryptRecvState(first, ClientPktHeaderSize).recvPos
                       /\ IF writePos - readPos - ClientPktHeaderSize < whole.size - 4
                          THEN /\ last'.path = "needBody"
                               /\ ReadPosAfter = readPos
                               /\ m_useExistingHeader'
                          ELSE /\ ~m_useExistingHeader'
                               /\ IF closed
                                  THEN last'.path = "closed"
                                  ELSE /\ Dispatched(last')
                                       /\ last'.bodyLen = whole.size - 4
                                       /\ ReadPosAfter = readPos + ClientPktHeaderSize
                                                           + last'.bodyLen
           /\ last'.path = "needBody"
                => /\ UNCHANGED <<m_session, m_s, m_lastPingTime, m_overSpeedPings,
                                  closed, world>>
                   /\ outBuffer' = <<>>
                   /\ m_crypt'.sendPos = m_crypt.sendPos ]_vars

\* a message whose header came encrypted was queued on a retry, from the cache
C7_Witness ==
    /\ last.usedExisting /\ last.path = "queued" /\ last.ret = "ok"
    /\ m_crypt.initialized /\ m_crypt.recvPos > 0
    /\ ~m_useExistingHeader

\* C8: a header is accepted exactly when its declared size is at least 4 and
\* either its opcode is the legacy one or its size is at most 0x2800; a header
\* that is not accepted makes the call return failure with EINVAL before
\* anything is dispatched or sent.
C8_SizeBounds ==
    last.path \notin {"none", "needHeader"}
    => /\ last.path # "framing"
            <=> /\ last.header.size >= 4
                /\ last.header.cmd = WOW_CONNECTION \/ last.header.size <= 10240
       /\ last.path = "framing"
            => /\ last.ret = "fail" /\ last.errno = "EINVAL"
               /\ outBuffer = <<>>
               /\ ~m_useExistingHeader

\* a message of declared size 0x2800 was accepted and queued
C8_Witness ==
    /\ last.header.size = 10240 /\ last.header.cmd = CMSG_PLAYER_LOGIN
    /\ last.path = "queued"

\* C9, as the specification states it: a header with the legacy opcode passes
\* the size check whatever its declared size, below 4 included.
C9_LegacyAnySize ==
    (last.path \notin {"none", "needHeader"} /\ last.header.cmd = WOW_CONNECTION)
    => last.path # "framing"

\* C9, amended: a header with the legacy opcode passes the size check exactly
\* when its declared size is at least 4, above 0x2800 included; below 4 it is
\* rejected as any other header is.
C9_LegacyAboveOnly ==
    (last.path \notin {"none", "needHeader"} /\ last.header.cmd = WOW_CONNECTION)
    => (last.path = "framing" <=> last.header.size < 4)

\* a legacy header of declared size 3 was rejected
C9_Witness ==
    /\ last.header.cmd = WOW_CONNECTION /\ last.header.size = 3
    /\ last.path = "framing" /\ last.ret = "fail"

\* C10: on a ping that is not the first and whose body parses, the overspeed
\* count goes up by one when fewer than 27 seconds passed since the last ping
\* and back to zero otherwise, the time of the last ping becomes the time of
\* this one, and only a ping below 27 seconds is refused on the count.
C10_OverSpeedCount ==
    [][ (CallStep /\ last'.path = "ping" /\ ~last'.threw
           /\ m_lastPingTime # TIME_MIN)
        => LET elapsed == last'.now - m_lastPingTime
           IN  /\ m_lastPingTime' = last'.now
               /\ IF elapsed < 27
                  THEN m_overSpeedPings' = m_overSpeedPings + 1
                  ELSE /\ m_overSpeedPings' = 0
                       /\ m_session # NULL => last'.ret = "ok"
               /\ (last'.ret = "fail" /\ m_session # NULL)
                    => /\ elapsed < 27
                       /\ config.maxOverspeedPings # 0
                       /\ m_overSpeedPings' > config.maxOverspeedPings ]_vars

\* a second ping 26 seconds after the first was counted
C10_Witness ==
    /\ last.path = "ping" /\ last.ret = "ok"
    /\ m_overSpeedPings = 1
    /\ last.now = 26 /\ m_lastPingTime = 26

\* a step of ProcessIncomingData in which HandlePing parsed its body
PingStep == CallStep /\ last'.path = "ping" /\ ~last'.threw

\* C11: with a session bound, HandlePing returns failure exactly when the cap
\* is nonzero, the overspeed count after the update is greater than the cap,
\* and the session is of the lowest level.  With cap 2 that is the third
\* rapid ping in a row; a session of a higher level and any session under cap
\* 0 always get their pong.
C11_OverSpeedKick ==
    [][ (PingStep /\ m_session # NULL)
        => /\ last'.ret = "fail"
                <=> /\ config.maxOverspeedPings # 0
                    /\ m_overSpeedPings' > config.maxOverspeedPings
                    /\ m_session.security = 0
           /\ (last'.ret = "fail" /\ config.maxOverspeedPings = 2)
                => m_overSpeedPings = 2 /\ m_overSpeedPings' = 3
           /\ last'.ret = "fail" => outBuffer' = <<>>
           /\ last'.ret = "ok"
                => /\ Len(outBuffer') = 1
                   /\ outBuffer'[1].opcode = SMSG_PONG ]_vars

\* under cap 2 a session of the lowest level was refused its third rapid ping
C11_Witness ==
    /\ config.maxOverspeedPings = 2
    /\ last.path = "ping" /\ last.ret = "fail"
    /\ m_overSpeedPings = 3
    /\ m_session # NULL /\ m_session.security = 0

\* C12: a CMSG_PING whose body parses, handled while no session is bound,
\* makes the call return failure and sends nothing.
C12_PingWithoutSession ==
    [][ (PingStep /\ m_session = NULL)
        => /\ last'.ret = "fail"
           /\ outBuffer' = <<>>
           /\ m_session' = NULL ]_vars

\* a peer with no session pinged and was refused, the time of its ping recorded
C12_Witness ==
    /\ last.path = "ping" /\ ~last.threw /\ last.ret = "fail"
    /\ m_session = NULL
    /\ m_lastPingTime # TIME_MIN

\* C13: once a session is bound it stays the same session, the cipher keeps
\* its key, and no further login record is written or session registered: a
\* connection is keyed at most once.  A CMSG_AUTH_SESSION dispatched while a
\* session is bound returns failure, sends nothing and changes nothing.
C13_KeyedOnce ==
    /\ [](/\ m_crypt.initialized <=> m_session # NULL
          /\ Len(world.logons) <= 1
          /\ Cardinality(world.sessions) <= 1)
    /\ [][ /\ m_session # NULL
                => /\ m_session'.id = m_session.id
                   /\ m_session'.security = m_session.security
                   /\ m_crypt'.initialized /\ m_crypt'.key = m_crypt.key
                   /\ world'.logons = world.logons
           /\ (CallStep /\ Dispatched(last') /\ m_session # NULL
                 /\ last'.header.cmd = CMSG_AUTH_SESSION)
                => /\ last'.ret = "fail"
                   /\ last'.authPath = "none"
                   /\ outBuffer' = <<>>
                   /\ world' = world
                   /\ m_session' = m_session
                   /\ m_crypt'.key = m_crypt.key ]_vars

\* a second credential message was refused on a keyed connection
C13_Witness ==
    /\ last.header.cmd = CMSG_AUTH_SESSION /\ Dispatched(last)
    /\ last.ret = "fail" /\ last.authPath = "none"
    /\ m_session # NULL /\ m_crypt.initialized
    /\ Len(world.logons) = 1

\* C14: HandleAuthSession evaluates a credential message only after the
\* handshake opener was received; so the credential message it evaluates is
\* never the first message of the stream.
C14_OpenerBeforeCredentials ==
    last.authPath # "none" => last.msg > 1

\* C15: when a handler throws on the body of a message, the call returns
\* success exactly when the configuration tolerates malformed packets and a
\* session is bound, and failure otherwise.
C15_ToleratedOnlyWithSession ==
    last.threw
    => (last.ret = "ok" <=> (~config.kickOnBadPacket /\ m_session # NULL))


(***************************************************************************)
(* The header of an outbound packet, as the receiver reads it.             *)
(***************************************************************************)
\* what the receiver of a server header reads: the top bit of the first byte
\* tells the long form, the size is big endian, the opcode low byte first
DecodeServerHeader(bytes) ==
    IF bytes[1] >= 128
    THEN [size   |-> (bytes[1] - 128) * 65536 + bytes[2] * 256 + bytes[3],
          cmd    |-> bytes[4] + 256 * bytes[5],
          length |-> 5]
    ELSE [size   |-> bytes[1] * 256 + bytes[2],
          cmd    |-> bytes[3] + 256 * bytes[4],
          length |-> 4]

\* C16: the bytes ServerPktHeader builds for (size, cmd), size in 0..0x7FFFFF
\* and cmd a 16-bit opcode, decode to the same size and opcode; the header is
\* as long as getHeaderLength says and as the decoder reads, 4 bytes exactly
\* when size is at most 0x7FFF and 5 bytes otherwise
C16_RoundTrip ==
    pktHeader.header # <<>> =>
        /\ pktHeader.size \in 0..8388607 /\ pktHeader.cmd \in 0..65535
        /\ Len(pktHeader.header) = pktHeader.length
        /\ DecodeServerHeader(pktHeader.header) =
               [size |-> pktHeader.size, cmd |-> pktHeader.cmd,
                length |-> pktHeader.length]
        /\ pktHeader.length = IF pktHeader.size <= 32767 THEN 4 ELSE 5

\* a long header at the first size that needs one, with an opcode whose two
\* bytes differ
C16_Witness ==
    /\ pktHeader.size = 32768 /\ pktHeader.cmd = 23990
    /\ pktHeader.header = <<128, 128, 0, 182, 93>>

\* a short header at the last size that fits one
C16_WitnessShort ==
    /\ pktHeader.size = 32767 /\ pktHeader.cmd = 257
    /\ pktHeader.header = <<127, 255, 1, 1>>


(***************************************************************************)
(* SendPacket.                                                             *)
(***************************************************************************)
\* a step in which SendPacket wrote a packet
SendStep ==
    /\ outBuffer' # <<>>
    /\ outBuffer' # outBuffer \/ nFlushed' # nFlushed

\* the header bytes before EncryptSend, given the cipher before the call
PlainHeader(crypt, bytes) ==
    IF crypt.initialized
    THEN [i \in 1..Len(bytes) |->
             U8(bytes[i] + 256 - KeyStream(crypt.key, crypt.sendPos + i - 1))]
    ELSE bytes

\* C17: every packet SendPacket writes, from a handler or from the world
\* thread, has a header whose size field holds the payload length plus 2: in
\* two bytes, big endian, when that value is at most 0x7FFF, and otherwise in
\* three bytes with the top bit of the first set; the opcode follows, low byte
\* first; the header written is 4 bytes in the first case and 5 in the second,
\* and a keyed cipher advances by exactly that many bytes
C17_SizeField ==
    [][ SendStep =>
          /\ Len(outBuffer') = 1
          /\ LET w == outBuffer'[1]
                 h == PlainHeader(m_crypt, w.hdr)
                 v == w.len + 2
             IN  /\ Len(w.hdr) = w.hdrLen
                 /\ IF v <= 32767
                    THEN /\ w.hdrLen = 4
                         /\ h[1] < 128
                         /\ h[1] * 256 + h[2] = v
                         /\ h[3] + 256 * h[4] = w.opcode
                    ELSE /\ w.hdrLen = 5
                         /\ h[1] >= 128
                         /\ (h[1] - 128) * 65536 + h[2] * 256 + h[3] = v
                         /\ h[4] + 256 * h[5] = w.opcode
                 /\ m_crypt'.sendPos = m_crypt.sendPos +
                        (IF m_crypt.initialized THEN w.hdrLen ELSE 0) ]_vars

\* the world thread has sent a packet of 0x7FFE payload bytes, the first to
\* need the long header, through a keyed cipher
C17_Witness ==
    /\ outBuffer # <<>>
    /\ outBuffer[1].len + 2 = 32768
    /\ outBuffer[1].hdrLen = 5 /\ Len(outBuffer[1].hdr) = 5
    /\ m_crypt.initialized /\ m_crypt.sendPos = 5
    /\ nWorldSends = 1


(***************************************************************************)
(* The seed of the connection.                                             *)
(***************************************************************************)
\* the digest HandleAuthSession computes for the credentials f with seed
DigestFor(f, seed) ==
    Sha1Digest(f.account, 0, f.clientSeed, seed, AccountKey(f.account))

\* C18: m_seed is never assigned after the constructor; a handshake opener,
\* whenever it arrives, is answered by one SMSG_AUTH_CHALLENGE that carries
\* m_seed; and HandleAuthSession accepts credentials only when their digest
\* is the one made with m_seed, and rejects them for their digest only when it
\* is not
C18_SeedConstant ==
    /\ [][m_seed' = m_seed]_vars
    /\ [](last.path = "wow" =>
            /\ last.ret = "ok"
            /\ Len(outBuffer) = 1
            /\ outBuffer[1].opcode = SMSG_AUTH_CHALLENGE
            /\ outBuffer[1].len = 37
            /\ outBuffer[1].value = m_seed)
    /\ [](/\ last.authPath = "ok" => last.f.digest = DigestFor(last.f, m_seed)
          /\ last.authPath = "digest" => last.f.digest # DigestFor(last.f, m_seed))

\* an opener that arrives after the credentials were accepted is answered
\* with the seed the credentials were checked against
C18_Witness ==
    /\ last.path = "wow" /\ last.msg = 3
    /\ m_session # NULL
    /\ outBuffer # <<>> /\ outBuffer[1].value = m_seed
    /\ m_seed = 23

\* credentials made with another seed than the connection's are rejected
C18_WitnessOtherSeed ==
    /\ last.authPath = "digest"
    /\ last.f.digest = DigestFor(last.f, 17)
    /\ m_seed = 23


(***************************************************************************)
(* The order of the session's queue.                                       *)
(***************************************************************************)
\* C19: with a session bound, a call of ProcessIncomingData that reaches the
\* switch handles the oldest message of the stream not yet consumed, as the
\* peer wrote it, and consumes exactly that one; when its opcode is none of
\* the opcodes the switch handles itself, known to the opcode table or not,
\* the message is appended at the end of the session's queue and the call
\* succeeds, and otherwise the queue is left alone; a message is taken off the
\* stream without reaching the switch only by a call that fails; and nothing
\* else changes the queue, which only ever grows by one entry at its end.  A
\* call that found the message incomplete consumes nothing, so that the call
\* that completes it queues it once.
C19_QueueInOrder ==
    [][ /\ world'.queue # world.queue =>
              /\ CallStep /\ m_session # NULL
              /\ Len(world'.queue) = Len(world.queue) + 1
              /\ SubSeq(world'.queue, 1, Len(world.queue)) = world.queue
        /\ (CallStep /\ m_session # NULL /\ Dispatched(last')) =>
              /\ wire # <<>>
              /\ last'.msg = nConsumed + 1
              /\ nConsumed' = nConsumed + 1
              /\ last'.header = [size |-> wire[1].size, cmd |-> wire[1].cmd]
              /\ last'.bodyLen = wire[1].bodyLen
              /\ IF wire[1].cmd \notin ReservedOpcodes
                 THEN /\ world'.queue = Append(world.queue,
                             [opcode |-> wire[1].cmd, len |-> wire[1].bodyLen])
                      /\ last'.ret = "ok"
                 ELSE world'.queue = world.queue
        /\ (CallStep /\ m_session # NULL /\ ~Dispatched(last')) =>
              /\ world'.queue = world.queue
              /\ nConsumed' # nConsumed => last'.ret = "fail"
              /\ last'.ret = "needmore" => nConsumed' = nConsumed ]_vars

\* an opcode without a table entry and then a player login whose body came
\* in a later read than its header, queued in the order they were written
C19_Witness ==
    /\ world.queue = <<[opcode |-> CMSG_UNKNOWN, len |-> 0],
                       [opcode |-> CMSG_PLAYER_LOGIN, len |-> 2]>>
    /\ last.path = "queued" /\ last.usedExisting
    /\ last.msg = 3 /\ nConsumed = 3


(***************************************************************************)
(* The first ping of a connection.                                         *)
(***************************************************************************)
\* HandlePing parsed the first ping of the connection
FirstPingStep == PingStep /\ m_lastPingTime = TIME_MIN

\* C20 as stated: the first ping of a connection records the time, leaves the
\* overspeed count at 0 and is answered with success and one SMSG_PONG,
\* whatever the cap and the level of the session
C20_FirstPingAccepted ==
    [][ FirstPingStep
        => /\ m_lastPingTime' = last'.now
           /\ m_overSpeedPings' = 0
           /\ last'.ret = "ok"
           /\ Len(outBuffer') = 1
           /\ outBuffer'[1].opcode = SMSG_PONG ]_vars

\* C20: the first ping of a connection records the time and leaves the
\* overspeed count at 0 whatever the cap; with a session bound, of any level,
\* the call stores the latency, sends one SMSG_PONG that echoes the ping and
\* returns success; with no session bound it sends nothing and returns
\* failure
C20_FirstPingWithSession ==
    [][ FirstPingStep
        => /\ m_lastPingTime' = last'.now
           /\ m_overSpeedPings = 0 /\ m_overSpeedPings' = 0
           /\ IF m_session # NULL
              THEN /\ last'.ret = "ok"
                   /\ Len(outBuffer') = 1
                   /\ outBuffer'[1].opcode = SMSG_PONG
                   /\ outBuffer'[1].value = 5
                   /\ m_session' = [m_session EXCEPT !.latency = 120]
              ELSE /\ last'.ret = "fail"
                   /\ outBuffer' = <<>>
                   /\ m_session' = NULL ]_vars

\* a session of the lowest level under a nonzero cap got the pong of its first
\* ping, sent right after its credentials
C20_Witness ==
    /\ last.path = "ping" /\ last.ret = "ok" /\ last.msg = 2 /\ nConsumed = 2
    /\ config.maxOverspeedPings = 1
    /\ m_session # NULL /\ m_session.security = 0
    /\ m_overSpeedPings = 0 /\ m_lastPingTime = last.now
    /\ outBuffer # <<>> /\ outBuffer[1].opcode = SMSG_PONG


(***************************************************************************)
(* The length of the body.                                                 *)
(***************************************************************************)
\* declared sizes from the smallest accepted one to the largest a header holds
RemainSizes == {4, 5, 259, 260, 10240, 10241, 32767, 32768, 65534, 65535}

\* C21: a call of ProcessIncomingData whose header passed the size check
\* works with a remaining length of the declared size minus 4, a value of
\* 0..65531 that the 16-bit variable holds unchanged: the call asks for more
\* data exactly when that length exceeds the bytes buffered behind the header,
\* and otherwise builds a message of exactly that length; so for the legacy
\* opcode with a declared size above 0x2800, and for every declared size up
\* to 0xFFFF
C21_RemainExact ==
    [][ (CallStep /\ last'.path \notin {"none", "needHeader", "framing"})
        => /\ ~SizeRejected(last'.header)
           /\ ValidBytesRemaining(last'.header) = last'.header.size - 4
           /\ last'.path = "needBody"
                <=> last'.header.size - 4 > writePos - (readPos + ClientPktHeaderSize)
           /\ Dispatched(last') => last'.bodyLen = last'.header.size - 4
           /\ \A size \in RemainSizes :
                 ValidBytesRemaining([size |-> size, cmd |-> WOW_CONNECTION]) = size - 4 ]_vars

\* a message with the legacy opcode and a declared size of 0x2801 was built
\* with its 0x27FD bytes
C21_Witness ==
    /\ last.path = "wow"
    /\ last.header.cmd = WOW_CONNECTION
    /\ last.header.size = MaxClientSize + 1
    /\ last.bodyLen = MaxClientSize + 1 - 4


(***************************************************************************)
(* The session and the world.                                              *)
(***************************************************************************)
\* C22: on an open connection whose last call of ProcessIncomingData did not
\* fail, a bound session is one that was registered with the world
C22_BoundIsRegistered ==
    (opened /\ ~closed /\ last.ret # "fail" /\ m_session # NULL)
        => m_session.id \in world.sessions


(***************************************************************************)
(* The cipher and the session.                                             *)
(***************************************************************************)
\* header bytes taken through the keyed cipher at its receive position
KeyedRecv(bytes) ==
    [i \in 1..Len(bytes) |->
        U8(bytes[i] + 256 - KeyStream(m_crypt.key, m_crypt.recvPos + i - 1))]

\* header bytes put through the keyed cipher at its send position
KeyedSend(bytes) ==
    [i \in 1..Len(bytes) |->
        U8(bytes[i] + KeyStream(m_crypt.key, m_crypt.sendPos + i - 1))]

\* C23: the cipher is keyed exactly when a session is bound, and it becomes
\* keyed only in a call whose HandleAuthSession passed every check.  A header
\* read while no session is bound is taken as the bytes on the wire and
\* leaves the receive position alone; one read while a session is bound is
\* taken through the keystream and advances it by six.  A header sent while
\* no session is bound is written as ServerPktHeader built it; one sent while
\* a session is bound is written through the keystream.
C23_KeyedIffBound ==
    /\ [](m_crypt.initialized <=> m_session # NULL)
    /\ [][ /\ (m_crypt'.initialized /\ ~m_crypt.initialized)
                => /\ CallStep /\ last'.authPath = "ok"
                   /\ m_session = NULL /\ m_session' # NULL
                   /\ m_crypt'.key = AccountKey(last'.f.account)
           /\ (CallStep /\ last'.path # "needHeader" /\ ~m_useExistingHeader)
                => IF m_session = NULL
                   THEN /\ last'.header = DecodeClientHeader(HeaderBytesAt(readPos))
                        /\ m_crypt'.recvPos = m_crypt.recvPos
                   ELSE /\ last'.header = DecodeClientHeader(KeyedRecv(HeaderBytesAt(readPos)))
                        /\ m_crypt'.recvPos = m_crypt.recvPos + ClientPktHeaderSize
           /\ SendStep
                => LET w == outBuffer'[1]
                       plain == ServerPktHeader(w.len + 2, w.opcode)
                   IN  IF m_session = NULL
                       THEN w.hdr = plain /\ m_crypt'.sendPos = m_crypt.sendPos
                       ELSE w.hdr = KeyedSend(plain) /\ w.hdr # plain ]_vars

\* a session got the pong of its ping: the header of the ping was read and the
\* header of the pong written through the keystream
C23_Witness ==
    /\ m_session # NULL /\ m_crypt.initialized
    /\ last.path = "ping" /\ last.ret = "ok" /\ last.msg = 2
    /\ m_crypt.recvPos = ClientPktHeaderSize /\ m_crypt.sendPos = 4
    /\ outBuffer # <<>>
    /\ outBuffer[1].hdr # ServerPktHeader(outBuffer[1].len + 2, SMSG_PONG)


(***************************************************************************)
(* A ping that does not parse.                                             *)
(***************************************************************************)
\* C24: a CMSG_PING with fewer than eight bytes of body leaves HandlePing by
\* the parsing exception before anything is updated: the time of the last
\* ping, the overspeed count and the session with its latency are as before
\* and nothing is sent; the call returns what the configuration says about
\* malformed packets, so a tolerated one adds nothing to the overspeed count
C24_ShortPingNoEffect ==
    [][ (CallStep /\ Dispatched(last') /\ last'.header.cmd = CMSG_PING
           /\ last'.bodyLen < PingBodyLen)
        => /\ last'.threw
           /\ m_lastPingTime' = m_lastPingTime
           /\ m_overSpeedPings' = m_overSpeedPings
           /\ m_session' = m_session
           /\ outBuffer' = <<>>
           /\ world' = world
           /\ last'.ret = IF config.kickOnBadPacket THEN "fail" ELSE "ok" ]_vars

\* a session that stood at its cap of one rapid ping sent a ping of four
\* bytes, which was tolerated and counted for nothing
C24_Witness ==
    /\ last.header.cmd = CMSG_PING /\ last.bodyLen = 4 /\ last.msg = 4
    /\ last.threw /\ last.ret = "ok"
    /\ m_session # NULL /\ m_session.security = 0
    /\ config.maxOverspeedPings = 1
    /\ m_lastPingTime # TIME_MIN /\ m_overSpeedPings = 1


(***************************************************************************)
(* SendPacket and the closed connection.                                   *)
(***************************************************************************)
\* a step in which the world thread called SendPacket
WorldSendStep == nWorldSends' # nWorldSends

\* C25: SendPacket called on a closed connection writes nothing and leaves
\* the cipher as it was.  On an open connection it writes one packet and a
\* keyed cipher's send position advances by the length of that packet's
\* header, 4 or 5, whatever the length of the payload; an unkeyed cipher has
\* no position to advance.  Nothing but a SendPacket that writes moves the
\* send position.
C25_ClosedSendsNothing ==
    [][ /\ (WorldSendStep /\ closed)
             => /\ outBuffer' = <<>>
                /\ m_crypt' = m_crypt
        /\ (WorldSendStep /\ ~closed) => SendStep
        /\ SendStep
             => /\ ~closed
                /\ Len(outBuffer') = 1
                /\ outBuffer'[1].hdrLen \in {4, 5}
                /\ m_crypt'.sendPos - m_crypt.sendPos =
                       IF m_crypt.initialized THEN outBuffer'[1].hdrLen ELSE 0
        /\ m_crypt'.sendPos # m_crypt.sendPos => SendStep ]_vars

\* the world thread sent to a session whose connection was closed: the keyed
\* cipher never left its first send position
C25_Witness ==
    /\ closed /\ nWorldSends = 1
    /\ m_session # NULL /\ m_crypt.initialized
    /\ m_crypt.sendPos = 0 /\ outBuffer = <<>>

====
